---- MODULE Spec2Model ----
(***************************************************************************)
(* Keyboard navigation of a chart (KeyboardNavigation, src/unnamed/part_001)*)
(* as a state machine.  One action per event handler; a handler that calls  *)
(* element.focus() runs the focus listener of that element synchronously,   *)
(* inside the same action, as the DOM does.                                 *)
(*                                                                          *)
(* Indices are 0-based as in the source: module i is modules[i + 1].        *)
(* The chart's tab stop is chart.container (chart.renderTo carries no       *)
(* tabindex of its own), so the exit anchor, a child of chart.renderTo, is  *)
(* outside chart.container and key-downs on it do not reach onKeydown.      *)
(***************************************************************************)
EXTENDS Integers, Sequences, FiniteSets, TLC

\* Longest module list update() is given.
MaxModules == 2

\* slots of Highcharts.charts followed
MaxCharts == 2

\* documentOnKeydown: const esc = 27
Esc == 27

\* KeyboardNavigationHandler options as the coordinator reads them:
\* validate is absent or returns a boolean, init and terminate are optional.
FullValid    == [validate |-> "true",  init |-> TRUE,  terminate |-> TRUE]
FullInvalid  == [validate |-> "false", init |-> TRUE,  terminate |-> TRUE]
Bare         == [validate |-> "none",  init |-> TRUE,  terminate |-> FALSE]
NoInit       == [validate |-> "true",  init |-> FALSE, terminate |-> TRUE]
ModuleKinds  == {FullValid, FullInvalid, Bare, NoInit}

\* KeyboardNavigationHandler.response codes a module's run() can return;
\* "other" stands for any code that is none of success, prev, next.
Responses == {"success", "prev", "next", "noHandler", "other"}

\* Where document.activeElement is, as far as the coordinator can tell: on
\* the tab stop, on the exit anchor, on another element inside the chart, or
\* outside the chart.  Only the first two carry a focus listener.
FocusPlaces == {"outside", "container", "inside", "anchor"}
UnlistenedPlaces == FocusPlaces \ {"container", "anchor"}

\* Element a module's init() puts focus on: an element inside the chart
\* (chart.setFocusToElement) or the tab stop itself (container component).
InitFocusTargets == {"inside", "container"}

\* this.exitAnchor is "none" (no element), "created" (the div createExitAnchor
\* appended to chart.renderTo), "marker" (the end-of-chart marker, in the
\* document) or "detached" (an element that has been taken out of the document).

\* What getElement(endMarkerId) finds in updateExitAnchor: nothing, a marker
\* that is not this.exitAnchor, or the marker that is this.exitAnchor.
EndMarkers == {"absent", "fresh", "same"}

\* keyboardNavigation.enabled of the chart options; "unset" also stands for
\* options without an accessibility or keyboardNavigation section.
EnabledOptions == {"true", "false", "unset"}

\* tabindex of chart.renderTo, which the coordinator never writes
RenderToTabindexes == {"none", "user"}

\* Chart classes compose() may be given: Chart and a class that extends it
ChartClasses == {"Chart", "SubChart"}

\* other key codes followed: Tab and Enter
OtherKeyCodes == {9, 13}

\* key-down events: browsers fill in keyCode, and which with 0 or the same code
KeyEvents ==
    {[which |-> w, keyCode |-> k] : w \in {0, Esc} \cup OtherKeyCodes,
                                    k \in {Esc} \cup OtherKeyCodes}
        \ {e \in [which : {Esc} \cup OtherKeyCodes, keyCode : {Esc} \cup OtherKeyCodes] :
               e.which # e.keyCode}

NoKey == [which |-> 0, keyCode |-> 0]

\* module lists the updates of PageSpec install
PageModuleLists == {<<>>, <<FullValid>>, <<FullValid, FullInvalid>>}

\* the listeners init() registers with this.eventProvider
InitSubscriptions ==
    {"keydown", "focus", "mouseup", "mousedown", "mouseover", "mouseout"}

VARIABLES
    modules,            \* this.modules
    currentModuleIx,    \* this.currentModuleIx
    exiting,            \* this.exiting
    tabbingInBackwards, \* this.tabbingInBackwards
    isClickingChart,    \* this.isClickingChart
    keyboardReset,      \* this.keyboardReset
    pointerIsOverChart, \* this.pointerIsOverChart
    focus,              \* document.activeElement, one of FocusPlaces
    active,             \* indices of modules initialised and not terminated since
    ev,                 \* the event last handled and its inputs
    calls,              \* calls the last handler made on modules, in order
    focusCalls,         \* element.focus() calls the last handler made, in order
    prevented,          \* the last handler called e.preventDefault()
    moved,              \* what move() returned to the last handler, "-" if not called
    threw,              \* a listener of the last event ended in a TypeError
    lastExit,           \* "forward"/"backward": the last listener that ran was a
                        \* key-down whose move() left the chart that way
    focusBorder,        \* chart.focusElement exists and shows its focus border
    cleared,            \* the last handler removed the focus border, if any
    subscriptions,      \* listeners this.eventProvider holds, by event
    exitAnchor,         \* this.exitAnchor and where the element is
    containerTabindex,  \* tabindex attribute of chart.container
    renderToTabindex,   \* tabindex attribute of chart.renderTo
    enabledOption,      \* chart.options.accessibility.keyboardNavigation.enabled
    destroyed,          \* destroy() has been called
    composedItems,      \* composedItems of the namespace
    docListeners,       \* documentOnKeydown listeners on the document
    charts,             \* Highcharts.charts, slot by slot
    dismissals,         \* dismissPopupContent() calls of the last document
                        \* key-down, slot by slot
    docKey,             \* the last document key-down, NoKey if the registry
                        \* or the namespace changed since
    built,              \* the order last given to update() and the handlers
                        \* its components returned, by name
    zoom,               \* the zoom component, the map navigation buttons of
                        \* its chart and the last key its handlers were given
    axis                \* extremes of the axis panStep works on, and its
                        \* last call

vars == <<modules, currentModuleIx, exiting, tabbingInBackwards, isClickingChart,
          keyboardReset, pointerIsOverChart, focus, active, ev, calls,
          focusCalls, prevented, moved, threw, lastExit, focusBorder, cleared,
          subscriptions, exitAnchor, containerTabindex, renderToTabindex,
          enabledOption, destroyed, composedItems, docListeners, charts,
          dismissals, docKey, built, zoom, axis>>

\* the document around the coordinator
domVars == <<subscriptions, exitAnchor, containerTabindex, renderToTabindex,
             enabledOption, destroyed>>

\* the components behind the module list
compVars == <<built, zoom, axis>>

\* the namespace and the chart registry
pageVars == <<composedItems, docListeners, charts, dismissals, docKey>>

\* the coordinator and the log of its last listener
navVars == <<modules, currentModuleIx, exiting, tabbingInBackwards,
             isClickingChart, keyboardReset, pointerIsOverChart, focus, active,
             ev, calls, focusCalls, prevented, moved, threw, lastExit,
             focusBorder, cleared>>

----------------------------------------------------------------------------
\* Helpers

HasModule(ix) == ix >= 0 /\ ix < Len(modules)
ModuleAt(ix) == modules[ix + 1]

\* The module lists update() is given next when the list is mods: update()
\* runs on every chart update, and from one run to the next a handler is added
\* at the end, the last one is dropped, or one handler's options change.
\* Every list of at most MaxModules handlers is some number of updates away,
\* through non-empty lists only.
NextModuleLists(mods) ==
    LET n == Len(mods)
    IN  (IF n < MaxModules THEN {Append(mods, k) : k \in ModuleKinds} ELSE {})
        \cup (IF n > 0 THEN {SubSeq(mods, 1, n - 1)} ELSE {})
        \cup {[mods EXCEPT ![i] = k] : i \in 1..n, k \in ModuleKinds}

Call(fn, ix, dir, via) == [fn |-> fn, ix |-> ix, dir |-> dir, via |-> via]

\* The part of the state a handler works on while it runs.
Frame(f) ==
    [ix |-> currentModuleIx, exiting |-> exiting, tib |-> tabbingInBackwards,
     focus |-> focus, active |-> active, calls |-> <<>>, focusCalls |-> <<>>,
     threw |-> FALSE, moved |-> "-", prevented |-> FALSE, initFocus |-> f,
     border |-> focusBorder, cleared |-> FALSE]

----------------------------------------------------------------------------
\* Conditions the handlers test

\* (a move that takes a module without validate for an invalid one)
FailsValidateUnlessTrue(m) == m.validate # "true"

\* (a move that lands on whatever module comes next)
FailsValidateNever(m) == FALSE

\* newModule.validate && !newModule.validate()
FailsValidate(m) == m.validate = "false"

\* (a guard that forgets the backward entry in progress)
FocusInitGuardIgnoringTib(s, focusComesFromChart) ==
    /\ ~s.exiting
    /\ ~isClickingChart
    /\ ~focusComesFromChart
    /\ HasModule(0)

\* (a guard that takes the click in progress for a keyboard entry)
FocusInitGuardDuringClick(s, focusComesFromChart) ==
    /\ ~s.exiting
    /\ ~s.tib
    /\ isClickingChart
    /\ ~focusComesFromChart
    /\ HasModule(0)

\* (a guard that forgets the click in progress)
FocusInitGuardIgnoringClick(s, focusComesFromChart) ==
    /\ ~s.exiting
    /\ ~s.tib
    /\ ~focusComesFromChart
    /\ HasModule(0)

\* (a guard that validates module 0 as move does)
FocusInitGuardValidating(s, focusComesFromChart) ==
    /\ ~s.exiting
    /\ ~s.tib
    /\ ~isClickingChart
    /\ ~focusComesFromChart
    /\ HasModule(0)
    /\ ModuleAt(0).validate # "false"

\* onFocus: the guard in front of this.modules[0].init(1)
FocusInitGuard(s, focusComesFromChart) ==
    /\ ~s.exiting
    /\ ~s.tib
    /\ ~isClickingChart
    /\ ~focusComesFromChart
    /\ HasModule(0)

\* exit anchor focus listener: comingInBackwards
ComingInBackwards(s, focusComesFromChart) == ~(focusComesFromChart \/ s.exiting)

\* chart.container.contains(e.relatedTarget) for a focus event on the exit
\* anchor, relatedTarget being the element that had focus before.
AnchorFocusComesFromChart(from) == from \in {"inside", "container"}

\* chart.container.contains(e.relatedTarget) for a focus event on the tab
\* stop; the tab stop itself is never its own relatedTarget.
ContainerFocusComesFromChart(from) == from = "inside"

\* (an exit that always goes to the tab stop)
ExitTargetAlwaysContainer(direction) == "container"

\* (an exit that always goes to the exit anchor)
ExitTargetAlwaysAnchor(direction) == "anchor"

\* move: the element focused when no module is left in that direction
ExitTarget(direction) == IF direction > 0 THEN "anchor" ELSE "container"

\* (a key-down that prevents the default of every backward Tab)
PreventDefaultOnPrev(response, landed) ==
    \/ response \in {"success", "prev"}
    \/ response = "next" /\ landed

\* (a key-down that prevents the default only after a move)
PreventDefaultMovesOnly(response, landed) ==
    response \in {"prev", "next"} /\ landed

\* (a key-down that prevents the default of every Tab it interprets)
PreventDefaultOnExit(response, landed) ==
    response \in {"success", "prev", "next"}

\* (a key-down that takes an unrecognised response for Success)
PreventDefaultUnlessNoHandler(response, landed) ==
    /\ response # "noHandler"
    /\ response \in {"prev", "next"} => landed

\* onKeydown: the value of preventDefault after interpreting the response;
\* landed is the result of prev()/next() when one of them was called.
PreventDefault(response, landed) ==
    CASE response = "success" -> TRUE
      [] response = "prev"    -> landed
      [] response = "next"    -> landed
      [] OTHER                -> FALSE

----------------------------------------------------------------------------
\* The document around the coordinator

\* removeExitAnchor: this.exitAnchor && this.exitAnchor.parentNode
AnchorAttached(a) == a \in {"created", "marker"}

\* (a removeExitAnchor that leaves the element where it is)
removeExitAnchorNever(a) == a

\* removeExitAnchor
removeExitAnchor(a) == IF AnchorAttached(a) THEN "none" ELSE a

\* updateExitAnchor: the marker is looked up first, then the old anchor is
\* removed, so a marker that was the old anchor is reused out of the document.
updateExitAnchor(a, endMarker) ==
    CASE endMarker = "same"   -> "detached"
      [] endMarker = "fresh"  -> "marker"
      [] endMarker = "absent" -> "created"

\* (a tabindex only for navigation that is switched on explicitly)
ShouldHaveTabindexIfEnabled(opt) == opt = "true"

\* updateContainerTabindex: shouldHaveTabindex
ShouldHaveTabindex(opt) == opt # "false"

\* updateContainerTabindex: this.tabindexContainer
TabindexContainer(renderTo) == IF renderTo # "none" THEN "renderTo" ELSE "container"

\* updateContainerTabindex: the tabindex of chart.container afterwards
ContainerTabindexAfter(opt, renderTo, container) ==
    IF renderTo # "none"
    THEN "none"
    ELSE IF ShouldHaveTabindex(opt)
         THEN (IF container = "none" THEN "0" ELSE container)
         ELSE "none"

\* (a destroy that leaves the tabindex on the container)
TabindexAfterDestroyKept(container) == container

\* destroy: this.chart.container.removeAttribute('tabindex')
TabindexAfterDestroy(container) == "none"

\* EventProvider.removeAddedEvents releases every subscription acquired
\* through the instance.
RemoveAddedEvents(subs) == {}

\* (a destroy that leaves the listeners of the document registered)
SubscriptionsAfterDestroyOfChart(subs) == subs \cap {"mouseup"}

\* destroy: this.eventProvider.removeAddedEvents()
SubscriptionsAfterDestroy(subs) == RemoveAddedEvents(subs)

\* element.focus() moves focus only to an element that is in the document
\* and has a tabindex.
Focusable(target) ==
    IF target = "anchor"
    THEN AnchorAttached(exitAnchor)
    ELSE containerTabindex # "none" \/ renderToTabindex # "none"

\* (a scan that asks a module twice whether it is valid)
validateCallsTwice(ix, direction, via) ==
    IF ModuleAt(ix).validate # "none"
    THEN <<Call("validate", ix, direction, via), Call("validate", ix, direction, via)>>
    ELSE <<>>

\* The calls of `module.validate && !module.validate()`: one call when the
\* module has a validate operation, none when it has not.
validateCalls(ix, direction, via) ==
    IF ModuleAt(ix).validate # "none"
    THEN <<Call("validate", ix, direction, via)>>
    ELSE <<>>

----------------------------------------------------------------------------
\* The handlers, as functions from frame to frame

RECURSIVE onFocus(_, _), focusElement(_, _), initModule(_, _, _, _),
          move(_, _), exitAnchorOnFocus(_, _)

\* module.init(direction): the module becomes the active one and puts native
\* focus on one of its elements (chart.setFocusToElement, which draws the
\* focus border), or on the tab stop.
initModule(s, i, direction, via) ==
    LET s1 == [s EXCEPT !.calls = Append(@, Call("init", i, direction, via)),
                        !.active = @ \cup {i}]
    IN  IF s.initFocus = "container"
        THEN focusElement(s1, "container")
        ELSE [s1 EXCEPT !.focus = "inside", !.border = TRUE]

\* element.focus() from a handler: nothing happens when the element already
\* has focus or cannot take it; otherwise its focus listener runs before
\* focus() returns.
focusElement(s, target) ==
    LET s1 == [s EXCEPT !.focusCalls =
                   Append(@, [target |-> target, exiting |-> s.exiting, tib |-> s.tib])]
    IN  IF s.focus = target \/ ~Focusable(target) THEN s1
        ELSE LET s2 == [s1 EXCEPT !.focus = target]
             IN  IF target = "container"
                 THEN onFocus(s2, ContainerFocusComesFromChart(s.focus))
                 ELSE exitAnchorOnFocus(s2, AnchorFocusComesFromChart(s.focus))

\* KeyboardNavigation.onFocus
onFocus(s, focusComesFromChart) ==
    IF FocusInitGuard(s, focusComesFromChart)
    THEN IF ModuleAt(0).init
         THEN [initModule(s, 0, 1, "onFocus") EXCEPT !.exiting = FALSE]
         ELSE [s EXCEPT !.threw = TRUE,   \* init is not a function
                        !.calls = Append(@, Call("init", 0, 1, "onFocus"))]
    ELSE [s EXCEPT !.exiting = FALSE]

\* KeyboardNavigation.move
move(s, direction) ==
    LET cur == s.ix
        s0  == IF HasModule(cur)
               THEN [s EXCEPT !.active = @ \ {cur},
                              !.calls = IF ModuleAt(cur).terminate
                                        THEN Append(@, Call("terminate", cur, direction, "move"))
                                        ELSE @]
               ELSE s
        s1  == [s0 EXCEPT !.border = FALSE, !.cleared = TRUE]
        new == cur + direction
        s2  == [s1 EXCEPT !.ix = new]
        s3  == IF HasModule(new)
               THEN [s2 EXCEPT !.calls = @ \o validateCalls(new, direction, "move")]
               ELSE s2
        s4  == [s3 EXCEPT !.ix = 0, !.exiting = TRUE]
    IN  IF HasModule(new) /\ FailsValidate(ModuleAt(new))
        THEN move(s3, direction)
        ELSE IF HasModule(new) /\ ModuleAt(new).init
        THEN [initModule(s3, new, direction, "move") EXCEPT !.moved = "true"]
        ELSE [focusElement(s4, ExitTarget(direction)) EXCEPT !.moved = "false"]

\* The focus listener addExitAnchorEventsToEl puts on the exit anchor
exitAnchorOnFocus(s, focusComesFromChart) ==
    IF ComingInBackwards(s, focusComesFromChart)
    THEN LET s1   == focusElement([s EXCEPT !.tib = TRUE], "container")
             s2   == [s1 EXCEPT !.tib = FALSE, !.prevented = TRUE]
             last == Len(modules) - 1
             s3   == [s2 EXCEPT !.ix = last]
             s4   == [s3 EXCEPT !.calls = @ \o validateCalls(last, -1, "anchor")]
         IN  IF Len(modules) = 0 THEN s2
             ELSE IF FailsValidate(ModuleAt(last)) THEN move(s4, -1)
             ELSE IF ModuleAt(last).init THEN initModule(s4, last, -1, "anchor")
             ELSE [s4 EXCEPT !.threw = TRUE,   \* init is not a function
                             !.calls = Append(@, Call("init", last, -1, "anchor"))]
    ELSE [s EXCEPT !.exiting = FALSE]

----------------------------------------------------------------------------
\* The components behind the module list: the container component
\* (src/unnamed/part_000) and the zoom component (src/unnamed/part_002)

\* Longest order update() is given when the handlers are followed by name.
MaxOrder == 2

\* Most keys one stay in the map zoom handler is followed for.
MaxKeys == 3

ComponentNames == {"container", "zoom"}

Orders == UNION {[1..n -> ComponentNames] : n \in 0..MaxOrder}

\* Key-downs a handler is given: the key and event.shiftKey
KeyCodes == {"tab", "up", "down", "left", "right", "space", "enter"}
Keys == [code : KeyCodes, shiftKey : {FALSE}]
            \cup [code : {"tab", "right"}, shiftKey : {TRUE}]

\* What the chart of the zoom component shows: a reset zoom button with its
\* proxy, a drill-up button with its proxy, map navigation (mapZoom and the
\* two mapNavButtons).
ChartButtonSets == {{"resetZoom", "drillUp", "mapZoom"}, {"mapZoom"}, {"drillUp"}}

\* components[componentName].getKeyboardNavigation(): the container component
\* returns one handler, the zoom component an array of three.
getKeyboardNavigation(componentName) ==
    IF componentName = "zoom"
    THEN <<"resetZoom", "drillUp", "mapZoom">>
    ELSE <<"container">>

\* (a reduce that puts the handlers of a later component in front)
concatInFront(mods, navModules) == navModules \o mods

\* modules.concat(navModules): an array is appended element by element, a
\* single handler as one element.
concat(mods, navModules) == mods \o navModules

\* order.reduce(function (modules, componentName) {...}, [])
RECURSIVE reduceOrder(_, _)
reduceOrder(order, mods) ==
    IF order = <<>> THEN mods
    ELSE reduceOrder(Tail(order), concat(mods, getKeyboardNavigation(Head(order))))

\* validate() of the handlers: the container's returns true, a simple
\* button's hasButton, the map zoom's chartHasMapZoom(chart).
validateHandler(name, buttons) == name = "container" \/ name \in buttons

\* (a panStep that lets the window leave the data)
panStepUnclamped(e, direction, granularity) ==
    LET gran == IF granularity = 0 THEN 3 ELSE granularity
        step == ((e.max - e.min) \div gran) * direction
    IN  [e EXCEPT !.min = e.min + step, !.max = e.max + step]

\* Axis.prototype.panStep(direction, granularity) on the extremes e; a
\* granularity that is absent or 0 is 0 here.  The division is exact for the
\* windows and granularities followed.
panStep(e, direction, granularity) ==
    LET gran   == IF granularity = 0 THEN 3 ELSE granularity
        step   == ((e.max - e.min) \div gran) * direction
        newMax == e.max + step
        newMin == e.min + step
        size   == newMax - newMin
    IN  IF direction < 0 /\ newMin < e.dataMin
        THEN [e EXCEPT !.min = e.dataMin, !.max = e.dataMin + size]
        ELSE IF direction > 0 /\ newMax > e.dataMax
        THEN [e EXCEPT !.max = e.dataMax, !.min = e.dataMax - size]
        ELSE [e EXCEPT !.min = newMin, !.max = newMax]

\* (an init that always starts on the zoom-in button)
initialButtonIxZero(direction) == 0

\* onMapNavInit: direction > 0 ? 0 : 1
initialButtonIx(direction) == IF direction > 0 THEN 0 ELSE 1

\* (a Tab that leaves the handler only forwards)
isMoveOutOfRangeForwards(isBackwards, ix) == ~isBackwards /\ ix # 0

\* onMapKbdTab: isBackwards && !focusedMapNavButtonIx ||
\*              !isBackwards && focusedMapNavButtonIx
isMoveOutOfRange(isBackwards, ix) ==
    \/ isBackwards /\ ix = 0
    \/ ~isBackwards /\ ix # 0

MapButton(ix) == IF ix = 0 THEN "zoomIn" ELSE "zoomOut"

\* onMapNavInit(direction)
onMapNavInit(z, direction) ==
    LET ix == initialButtonIx(direction)
    IN  [z EXCEPT !.focusEl = MapButton(ix),
                  !.states[ix + 1] = 2,
                  !.focusedIx = ix]

\* onMapKbdTab: the component after the key, and the response
onMapKbdTab(z, e) ==
    LET isBackwards == e.shiftKey
        z1 == [z EXCEPT !.states[z.focusedIx + 1] = 0,
                        !.last.deselected = z.focusedIx]
        ix == z.focusedIx + (IF isBackwards THEN -1 ELSE 1)
    IN  IF isMoveOutOfRange(isBackwards, z.focusedIx)
        THEN [z1 EXCEPT !.last.mapZoomReset = TRUE,
                        !.last.response = IF isBackwards THEN "prev" ELSE "next"]
        ELSE [z1 EXCEPT !.focusedIx = ix,
                        !.focusEl = MapButton(ix),
                        !.states[ix + 1] = 2,
                        !.last.response = "success"]

\* onMapKbdClick
onMapKbdClick(z) ==
    [z EXCEPT !.last.clicked = MapButton(z.focusedIx),
              !.last.response = "success"]

\* onMapKbdArrow: the axis panned and the direction of the step
panAxisOf(code) == IF code \in {"up", "down"} THEN "yAxis" ELSE "xAxis"
stepDirectionOf(code) == IF code \in {"left", "up"} THEN -1 ELSE 1

\* (a pick that always takes the default)
pickDefault(res, default) == default

\* pick(res, default) of Core/Utilities
pick(res, default) == IF res # "undefined" THEN res ELSE default

\* The onClick callbacks getKeyboardNavigation gives the two simple buttons:
\* the reset zoom one returns nothing, the drill-up one response.prev.
onClickResult(button) == IF button = "drillUp" THEN "prev" ELSE "undefined"

\* simpleButtonNavigation: the handler of the keyCodeMap entry the key is in
simpleButtonRun(button, e) ==
    IF e.code \in {"space", "enter"}
    THEN pick(onClickResult(button), "success")
    ELSE LET isBackwards == \/ e.code = "tab" /\ e.shiftKey
                            \/ e.code = "left"
                            \/ e.code = "up"
         IN  IF isBackwards THEN "prev" ELSE "next"

\* The operations a handler of the two components is constructed with: each
\* has validate and init, none has terminate.
HandlerKind(name, buttons) ==
    [validate  |-> IF validateHandler(name, buttons) THEN "true" ELSE "false",
     init      |-> TRUE,
     terminate |-> FALSE]

NothingBuilt == [order |-> <<>>, handlers |-> <<>>]

\* no key given to a handler of the zoom component yet
NoRun == [handler |-> "none", key |-> [code |-> "none", shiftKey |-> FALSE],
          preIx |-> -1, response |-> "-", deselected |-> -1, mapZoomReset |-> FALSE,
          clicked |-> "none", panned |-> "none"]

\* The zoom component of a chart showing the given buttons, before any init:
\* focusedMapNavButtonIx is undefined (-1 here).
ZoomWith(buttons) ==
    [buttons   |-> buttons,
     focusedIx |-> -1,
     states    |-> <<0, 0>>,     \* setState of mapNavButtons[0], mapNavButtons[1]
     focusEl   |-> "none",       \* last target of chart.setFocusToElement
     inMap     |-> FALSE,        \* the map zoom handler is the current module
     initDir   |-> 0,            \* direction of its last init
     presses   |-> 0,            \* keys it was given since
     tabsOnly  |-> TRUE,         \* ... all of them Tab in the direction of init
     last      |-> NoRun]

ZoomAfterConstruction == ZoomWith({"resetZoom", "drillUp", "mapZoom"})

\* extremes of one axis
Extremes(min, max, dataMin, dataMax) ==
    [min |-> min, max |-> max, dataMin |-> dataMin, dataMax |-> dataMax]

NoPan == [axis |-> "none", direction |-> 0, granularity |-> 0,
          min |-> 0, max |-> 0]

\* Both axes showing min..min+size of data 0..12, panStep not called yet.
AxisAtRest(min, size) ==
    [xAxis |-> Extremes(min, min + size, 0, 12),
     yAxis |-> Extremes(min, min + size, 0, 12),
     pan   |-> NoPan]

----------------------------------------------------------------------------
\* State after the constructor: init() empties the module list, sets the index
\* to 0 and calls update() without an order.

\* The event being handled, with the values the claims compare against: the
\* index before the listener ran and, for the two focus listeners (which read
\* this.exiting), the exiting flag before it ran and lastExit.
Event(name, response, fromChart) ==
    [name |-> name, response |-> response, fromChart |-> fromChart,
     preIx |-> currentModuleIx, preExiting |-> FALSE, afterExit |-> "none"]

FocusEvent(name, fromChart) ==
    [Event(name, "-", fromChart) EXCEPT !.preExiting = exiting, !.afterExit = lastExit]

InitComponents(opt, renderTo, z, a) ==
    /\ modules = <<>>
    /\ currentModuleIx = 0
    /\ exiting = FALSE
    /\ tabbingInBackwards = FALSE
    /\ isClickingChart = FALSE
    /\ keyboardReset = FALSE
    /\ pointerIsOverChart = FALSE
    /\ focus = "outside"
    /\ active = {}
    /\ ev = [name |-> "init", response |-> "-", fromChart |-> FALSE, preIx |-> 0,
             preExiting |-> FALSE, afterExit |-> "none"]
    /\ calls = <<>>
    /\ focusCalls = <<>>
    /\ prevented = FALSE
    /\ moved = "-"
    /\ threw = FALSE
    /\ lastExit = "none"
    /\ focusBorder = FALSE
    /\ cleared = FALSE
    /\ subscriptions = InitSubscriptions
    /\ exitAnchor = "none"
    /\ containerTabindex = ContainerTabindexAfter(opt, renderTo, "none")
    /\ renderToTabindex = renderTo
    /\ enabledOption = opt
    /\ destroyed = FALSE
    /\ composedItems = {}
    /\ docListeners = 0
    /\ charts = <<>>
    /\ dismissals = <<>>
    /\ docKey = NoKey
    /\ built = NothingBuilt
    /\ zoom = z
    /\ axis = a

\* ... with a chart that shows every button and both axes at the start of
\* their data
InitWith(opt, renderTo) ==
    InitComponents(opt, renderTo, ZoomAfterConstruction, AxisAtRest(0, 6))

\* Navigation switched on, chart.renderTo without a tabindex of its own.
Init == InitWith("true", "none")

\* Write a finished frame back to the object.
Commit(s) ==
    /\ currentModuleIx' = s.ix
    /\ exiting' = s.exiting
    /\ tabbingInBackwards' = s.tib
    /\ focus' = s.focus
    /\ active' = s.active
    /\ calls' = s.calls
    /\ focusCalls' = s.focusCalls
    /\ prevented' = s.prevented
    /\ moved' = s.moved
    /\ threw' = s.threw
    /\ focusBorder' = s.border
    /\ cleared' = s.cleared

----------------------------------------------------------------------------
\* Events

\* The log of a listener that calls nothing on the modules and leaves the
\* focus border alone.
Log(e) ==
    /\ ev' = e
    /\ focusBorder' = focusBorder
    /\ cleared' = FALSE
    /\ calls' = <<>>
    /\ focusCalls' = <<>>
    /\ prevented' = FALSE
    /\ moved' = "-"
    /\ threw' = FALSE

Quiet(name) == Log(Event(name, "-", FALSE))

\* (an update that always resets the index)
UpdatedIxZero(enabled, mods) == 0

\* (an update that never resets the index)
UpdatedIxKept(enabled, mods) == currentModuleIx

\* update(): currentModuleIx is reset in the else branch only
UpdatedIx(enabled, mods) ==
    IF enabled /\ Len(mods) > 0 THEN currentModuleIx ELSE 0

\* update(order): order.reduce(...) gives mods, which is empty when order is
\* absent or empty; endMarker is what getElement(endMarkerId) finds.  When
\* registered is FALSE the order names a feature that has no entry in
\* components, and components[componentName].getKeyboardNavigation() raises a
\* TypeError inside the reduce: the assignment to modules and everything after
\* it do not happen.  The coordinator is not updated after destroy().
UpdateModules(opt, mods, endMarker, registered) ==
    /\ ~destroyed
    /\ endMarker = "same" => exitAnchor = "marker"
    /\ enabledOption' = opt
    /\ containerTabindex' = ContainerTabindexAfter(opt, renderToTabindex, containerTabindex)
    /\ IF opt = "true" /\ ~registered
       THEN /\ UNCHANGED <<modules, exitAnchor, subscriptions, currentModuleIx,
                           focus, active, focusBorder>>
            /\ ev' = Event("update", "unknown", FALSE)
            /\ cleared' = FALSE
            /\ calls' = <<>>
            /\ focusCalls' = <<>>
            /\ prevented' = FALSE
            /\ moved' = "-"
            /\ threw' = TRUE
       ELSE /\ IF opt = "true" /\ Len(mods) > 0
               THEN /\ modules' = mods
                    /\ exitAnchor' = updateExitAnchor(exitAnchor, endMarker)
                    /\ subscriptions' = subscriptions \cup {"anchorFocus"}
               ELSE /\ modules' = <<>>
                    /\ exitAnchor' = removeExitAnchor(exitAnchor)
                    /\ subscriptions' = subscriptions
            /\ currentModuleIx' = UpdatedIx(opt = "true", mods)
            \* the old exit anchor is taken out of the document, with the focus it had
            /\ focus' = IF focus = "anchor" THEN "outside" ELSE focus
            \* the handlers of the list are new objects
            /\ active' = {}
            /\ Log(Event("update",
                         IF ~registered THEN "unknown"
                         ELSE IF Len(mods) = 0 THEN "noOrder" ELSE "order",
                         FALSE))
    /\ lastExit' = "none"
    /\ UNCHANGED <<exiting, tabbingInBackwards, isClickingChart, keyboardReset,
                   pointerIsOverChart, renderToTabindex, destroyed>>
    /\ UNCHANGED <<pageVars, axis>>

\* update(order), the handlers followed by what they can do only
Update(opt, mods, endMarker, registered) ==
    /\ UpdateModules(opt, mods, endMarker, registered)
    /\ UNCHANGED <<built, zoom>>

\* update(order), the handlers followed by name
UpdateOrder(opt, order) ==
    LET handlers == reduceOrder(order, <<>>)
        mods     == [i \in 1..Len(handlers) |-> HandlerKind(handlers[i], zoom.buttons)]
    IN  /\ UpdateModules(opt, mods, "absent", TRUE)
        /\ built' = [order    |-> order,
                     handlers |-> IF opt = "true" /\ Len(order) > 0
                                  THEN handlers ELSE <<>>]
        \* the handlers of the list are new objects: none has been given
        \* init or a key
        /\ zoom' = [zoom EXCEPT !.inMap = FALSE, !.initDir = 0, !.presses = 0,
                                !.tabsOnly = TRUE, !.last = NoRun]

\* destroy()
Destroy ==
    /\ destroyed' = TRUE
    /\ exitAnchor' = removeExitAnchor(exitAnchor)
    /\ subscriptions' = SubscriptionsAfterDestroy(subscriptions)
    /\ containerTabindex' = TabindexAfterDestroy(containerTabindex)
    \* the exit anchor is taken out of the document, with the focus it had
    /\ focus' = IF focus = "anchor" THEN "outside" ELSE focus
    /\ Log(Event("destroy", IF destroyed THEN "again" ELSE "-", FALSE))
    /\ lastExit' = "none"
    /\ UNCHANGED <<modules, currentModuleIx, exiting, tabbingInBackwards,
                   isClickingChart, keyboardReset, pointerIsOverChart, active,
                   renderToTabindex, enabledOption>>
    /\ UNCHANGED <<pageVars, compVars>>

\* Native focus arrives on the tab stop: the 'focus' listener of init().
ContainerFocus(f) ==
    /\ "focus" \in subscriptions
    /\ Focusable("container")
    /\ focus # "container"
    /\ LET fromChart == ContainerFocusComesFromChart(focus)
           s == onFocus([Frame(f) EXCEPT !.focus = "container"], fromChart)
       IN  /\ Commit(s)
           /\ ev' = FocusEvent("focus", fromChart)
    /\ lastExit' = "none"
    /\ UNCHANGED <<modules, isClickingChart, keyboardReset, pointerIsOverChart>>
    /\ UNCHANGED <<domVars, pageVars, compVars>>

\* Native focus arrives on the exit anchor.
ExitAnchorFocus(f) ==
    /\ "anchorFocus" \in subscriptions
    /\ Focusable("anchor")
    /\ focus # "anchor"
    /\ LET fromChart == AnchorFocusComesFromChart(focus)
           s == exitAnchorOnFocus([Frame(f) EXCEPT !.focus = "anchor"], fromChart)
       IN  /\ Commit(s)
           /\ ev' = FocusEvent("anchorFocus", fromChart)
    /\ lastExit' = "none"
    /\ UNCHANGED <<modules, isClickingChart, keyboardReset, pointerIsOverChart>>
    /\ UNCHANGED <<domVars, pageVars, compVars>>

\* onKeydown; response is what the current module's run(e) returns.
Keydown(response, f) ==
    /\ "keydown" \in subscriptions
    /\ focus \in {"container", "inside"}
    /\ LET s0 == [Frame(f) EXCEPT !.exiting = FALSE]
       IN  IF HasModule(currentModuleIx)
           THEN LET s1 == [s0 EXCEPT !.calls =
                               Append(@, Call("run", currentModuleIx, 0, "onKeydown"))]
                    s2 == CASE response = "prev" -> move(s1, -1)
                            [] response = "next" -> move(s1, 1)
                            [] OTHER             -> s1
                    s3 == [s2 EXCEPT !.prevented =
                               PreventDefault(response, s2.moved = "true")]
                IN  /\ Commit(s3)
                    /\ ev' = Event("keydown", response, FALSE)
                    /\ lastExit' = IF s2.moved = "false"
                                   THEN (IF response = "next" THEN "forward" ELSE "backward")
                                   ELSE "none"
           ELSE /\ Commit(s0)
                /\ ev' = Event("keydown", "-", FALSE)
                /\ lastExit' = "none"
    /\ keyboardReset' = FALSE
    /\ UNCHANGED <<modules, isClickingChart, pointerIsOverChart>>
    /\ UNCHANGED <<domVars, pageVars, compVars>>

\* (a pointer-up that never resets)
PointerResetGuardNever == FALSE

\* (a pointer-up that resets wherever the pointer is)
PointerResetGuardIgnoringPointer == ~keyboardReset

\* (a pointer-up that resets whenever the pointer is outside the chart)
PointerResetGuardUnarmed == ~pointerIsOverChart

\* onMouseUp: !this.keyboardReset && !this.pointerIsOverChart
PointerResetGuard == ~keyboardReset /\ ~pointerIsOverChart

\* onMouseUp, for mouseup and touchend on the document.
MouseUp ==
    /\ "mouseup" \in subscriptions
    /\ UNCHANGED <<domVars, pageVars, compVars>>
    /\ isClickingChart' = FALSE
    /\ IF PointerResetGuard
       THEN /\ calls' = IF HasModule(currentModuleIx) /\ ModuleAt(currentModuleIx).terminate
                        THEN <<Call("terminate", currentModuleIx, 0, "onMouseUp")>>
                        ELSE <<>>
            /\ active' = active \ {currentModuleIx}
            /\ focusBorder' = FALSE
            /\ cleared' = TRUE
            /\ currentModuleIx' = 0
            /\ keyboardReset' = TRUE
       ELSE /\ calls' = <<>>
            /\ cleared' = FALSE
            /\ UNCHANGED <<active, currentModuleIx, keyboardReset, focusBorder>>
    /\ ev' = Event("mouseup", "-", FALSE)
    /\ focusCalls' = <<>>
    /\ prevented' = FALSE
    /\ moved' = "-"
    /\ threw' = FALSE
    /\ lastExit' = "none"
    /\ UNCHANGED <<modules, exiting, tabbingInBackwards, pointerIsOverChart, focus>>

\* mousedown and touchstart on chart.renderTo
MouseDown ==
    /\ "mousedown" \in subscriptions
    /\ UNCHANGED <<domVars, pageVars, compVars>>
    /\ isClickingChart' = TRUE
    /\ Quiet("mousedown")
    /\ lastExit' = "none"
    /\ UNCHANGED <<modules, currentModuleIx, exiting, tabbingInBackwards,
                   keyboardReset, pointerIsOverChart, focus, active>>

\* mouseover on chart.renderTo
MouseOver ==
    /\ "mouseover" \in subscriptions
    /\ UNCHANGED <<domVars, pageVars, compVars>>
    /\ pointerIsOverChart' = TRUE
    /\ Quiet("mouseover")
    /\ lastExit' = "none"
    /\ UNCHANGED <<modules, currentModuleIx, exiting, tabbingInBackwards,
                   isClickingChart, keyboardReset, focus, active>>

\* mouseout on chart.renderTo
MouseOut ==
    /\ "mouseout" \in subscriptions
    /\ UNCHANGED <<domVars, pageVars, compVars>>
    /\ pointerIsOverChart' = FALSE
    /\ Quiet("mouseout")
    /\ lastExit' = "none"
    /\ UNCHANGED <<modules, currentModuleIx, exiting, tabbingInBackwards,
                   isClickingChart, keyboardReset, focus, active>>

\* An event of a kind this.eventProvider holds no listener for any more.
Unheard(name) ==
    /\ name \in InitSubscriptions \ (subscriptions \cup {"focus"})
    /\ name = "keydown" => focus \in {"container", "inside"}
    /\ Quiet("unheard")
    /\ UNCHANGED <<modules, currentModuleIx, exiting, tabbingInBackwards,
                   isClickingChart, keyboardReset, pointerIsOverChart, focus,
                   active, lastExit>>
    /\ UNCHANGED <<domVars, pageVars, compVars>>

\* Native focus moves where the coordinator has no listener: to an element
\* inside the chart, or out of the chart.
FocusElsewhere(place) ==
    /\ UNCHANGED <<domVars, pageVars, compVars>>
    /\ focus # place
    /\ focus' = place
    /\ Quiet("nativeFocus")
    /\ UNCHANGED lastExit
    /\ UNCHANGED <<modules, currentModuleIx, exiting, tabbingInBackwards,
                   isClickingChart, keyboardReset, pointerIsOverChart, active>>

----------------------------------------------------------------------------
\* The namespace and the chart registry

\* (a listener that reads e.which only)
KeyCodeOfWhich(e) == e.which

\* documentOnKeydown: e.which || e.keyCode
KeyCode(e) == IF e.which # 0 THEN e.which ELSE e.keyCode

\* chart.dismissPopupContent is defined: compose() has put it on the prototype
\* of the chart's class or of the class it extends
HasDismissPopupContent(cls) ==
    \/ cls \in composedItems
    \/ cls = "SubChart" /\ "Chart" \in composedItems

NoDismissals(n) == [i \in 1..n |-> 0]

\* (a compose that adds its document listener on every call)
DocListenersAfterComposeAlways(items, n) == n + 1

\* compose: addEvent(doc, 'keydown', documentOnKeydown) unless doc is among
\* the composed items
DocListenersAfterCompose(items, n) == IF "doc" \notin items THEN n + 1 ELSE n

\* compose(ChartClass)
Compose(cls) ==
    /\ composedItems' = composedItems \cup {cls, "doc"}
    /\ docListeners' = DocListenersAfterCompose(composedItems, docListeners)
    /\ dismissals' = NoDismissals(Len(charts))
    /\ docKey' = NoKey
    /\ UNCHANGED <<charts, navVars, domVars, compVars>>

\* new Chart(...) puts the chart in the next slot of Highcharts.charts
AddChart(cls) ==
    /\ Len(charts) < MaxCharts
    /\ charts' = Append(charts, cls)
    /\ dismissals' = NoDismissals(Len(charts) + 1)
    /\ docKey' = NoKey
    /\ UNCHANGED <<composedItems, docListeners, navVars, domVars, compVars>>

\* chart.destroy() leaves the chart's slot of Highcharts.charts undefined
DestroyChart(i) ==
    /\ i \in 1..Len(charts)
    /\ charts[i] # "empty"
    /\ charts' = [charts EXCEPT ![i] = "empty"]
    /\ dismissals' = NoDismissals(Len(charts))
    /\ docKey' = NoKey
    /\ UNCHANGED <<composedItems, docListeners, navVars, domVars, compVars>>

\* A key-down reaches the document: every documentOnKeydown listener runs.
DocumentKeydown(e) ==
    /\ docListeners > 0
    /\ docKey' = e
    /\ dismissals' =
           [i \in 1..Len(charts) |->
               IF /\ KeyCode(e) = Esc
                  /\ charts[i] # "empty"
                  /\ HasDismissPopupContent(charts[i])
               THEN docListeners
               ELSE 0]
    /\ UNCHANGED <<composedItems, docListeners, charts, navVars, domVars, compVars>>

----------------------------------------------------------------------------
\* The handlers of the zoom component at work

\* init(direction) of the map zoom handler
MapNavInit(direction) ==
    /\ "mapZoom" \in zoom.buttons
    /\ zoom' = [onMapNavInit(zoom, direction) EXCEPT
                    !.inMap = TRUE, !.initDir = direction, !.presses = 0,
                    !.tabsOnly = TRUE, !.last = NoRun]
    /\ UNCHANGED <<built, axis, navVars, domVars, pageVars>>

\* run(e) of the map zoom handler: the keyCodeMap entry the key is in
MapKey(e) ==
    /\ zoom.inMap
    /\ zoom.presses < MaxKeys
    /\ LET z0 == [zoom EXCEPT !.last = [NoRun EXCEPT !.handler = "mapZoom",
                                                     !.key = e,
                                                     !.preIx = zoom.focusedIx],
                              !.presses = @ + 1,
                              !.tabsOnly = /\ @
                                           /\ e.code = "tab"
                                           /\ e.shiftKey <=> (zoom.initDir < 0)]
           z1 == CASE e.code = "tab" -> onMapKbdTab(z0, e)
                   [] e.code \in {"space", "enter"} -> onMapKbdClick(z0)
                   [] OTHER -> [z0 EXCEPT !.last.panned = panAxisOf(e.code),
                                          !.last.response = "success"]
       IN  /\ zoom' = [z1 EXCEPT !.inMap = (z1.last.response = "success")]
           /\ axis' = IF e.code \in {"up", "down", "left", "right"}
                      THEN [axis EXCEPT
                               ![panAxisOf(e.code)] =
                                   panStep(@, stepDirectionOf(e.code), 0),
                               !.pan = [axis        |-> panAxisOf(e.code),
                                        direction   |-> stepDirectionOf(e.code),
                                        granularity |-> 0,
                                        min         |-> axis[panAxisOf(e.code)].min,
                                        max         |-> axis[panAxisOf(e.code)].max]]
                      ELSE axis
    /\ UNCHANGED <<built, navVars, domVars, pageVars>>

\* init() of a simple button handler
ButtonInit(button) ==
    /\ button \in zoom.buttons \ {"mapZoom"}
    /\ zoom' = [zoom EXCEPT !.focusEl = button, !.inMap = FALSE, !.initDir = 0,
                            !.presses = 0, !.tabsOnly = TRUE, !.last = NoRun]
    /\ UNCHANGED <<built, axis, navVars, domVars, pageVars>>

\* run(e) of a simple button handler; what chart.zoomOut() and chart.drillUp()
\* do to the chart is not followed.
ButtonKey(button, e) ==
    /\ button \in zoom.buttons \ {"mapZoom"}
    /\ zoom.focusEl = button
    /\ zoom' = [zoom EXCEPT !.last =
                   [NoRun EXCEPT !.handler = button,
                                 !.key = e,
                                 !.response = simpleButtonRun(button, e),
                                 !.clicked = IF e.code \in {"space", "enter"}
                                             THEN button ELSE "none"]]
    /\ UNCHANGED <<built, axis, navVars, domVars, pageVars>>

\* axis.panStep(direction, granularity)
PanStep(axisName, direction, granularity) ==
    /\ granularity # 0 => (axis[axisName].max - axis[axisName].min) % granularity = 0
    /\ axis' = [axis EXCEPT ![axisName] = panStep(@, direction, granularity),
                            !.pan = [axis        |-> axisName,
                                     direction   |-> direction,
                                     granularity |-> granularity,
                                     min         |-> axis[axisName].min,
                                     max         |-> axis[axisName].max]]
    /\ UNCHANGED <<built, zoom, navVars, domVars, pageVars>>

Next ==
    \/ \E mods \in NextModuleLists(modules) : Update("true", mods, "absent", TRUE)
    \/ \E opt \in EnabledOptions \ {"true"}, mods \in {<<>>, <<FullValid>>} :
           Update(opt, mods, "absent", TRUE)
    \/ Update("true", <<>>, "absent", FALSE)
    \/ Destroy
    \/ \E name \in InitSubscriptions : Unheard(name)
    \/ \E f \in InitFocusTargets : ContainerFocus(f)
    \/ \E f \in InitFocusTargets : ExitAnchorFocus(f)
    \/ \E r \in Responses \ {"prev", "next"} : Keydown(r, "inside")
    \/ \E r \in {"prev", "next"}, f \in InitFocusTargets : Keydown(r, f)
    \/ MouseUp
    \/ MouseDown
    \/ MouseOver
    \/ MouseOut
    \/ \E place \in UnlistenedPlaces : FocusElsewhere(place)

Spec == Init /\ [][Next]_vars

\* The coordinator's life cycle in any document, and the page around it
PageInit ==
    \E opt \in EnabledOptions, renderTo \in RenderToTabindexes : InitWith(opt, renderTo)

PageNext ==
    \/ \E opt \in EnabledOptions, mods \in PageModuleLists, endMarker \in EndMarkers :
           Update(opt, mods, endMarker, TRUE)
    \/ Destroy
    \/ \E cls \in ChartClasses : Compose(cls)
    \/ \E cls \in ChartClasses : AddChart(cls)
    \/ \E i \in 1..MaxCharts : DestroyChart(i)
    \/ \E e \in KeyEvents : DocumentKeydown(e)

PageSpec == PageInit /\ [][PageNext]_vars

\* The zoom component and the container component behind the coordinator
ZoomInit ==
    \E buttons \in ChartButtonSets :
        InitComponents("true", "none", ZoomWith(buttons), AxisAtRest(0, 12))

ZoomNext ==
    \/ \E order \in Orders : UpdateOrder("true", order)
    \/ UpdateOrder("false", <<"zoom">>)
    \/ \E direction \in {-1, 1} : MapNavInit(direction)
    \/ \E e \in Keys : MapKey(e)
    \/ \E button \in {"resetZoom", "drillUp"} : ButtonInit(button)
    \/ \E button \in {"resetZoom", "drillUp"}, e \in Keys : ButtonKey(button, e)

ZoomSpec == ZoomInit /\ [][ZoomNext]_vars

\* An axis panned step by step: windows of 6 and 12 around data 0..12
PanMins == {-6, -3, 0, 3, 6, 9}
PanSizes == {6, 12}
Granularities == {0, 1, 2, 3}

PanInit ==
    \E min \in PanMins, size \in PanSizes :
        InitComponents("true", "none", ZoomAfterConstruction, AxisAtRest(min, size))

PanNext ==
    \E axisName \in {"xAxis", "yAxis"}, direction \in {-1, 1},
       granularity \in Granularities :
        PanStep(axisName, direction, granularity)

PanSpec == PanInit /\ [][PanNext]_vars

----------------------------------------------------------------------------
\* Vocabulary of the properties

Indices == 0..(Len(modules) - 1)

\* validate() of module i does not return false (a module without validate
\* counts as valid).
IsValid(i) == modules[i + 1].validate # "false"

Direction(response) == IF response = "next" THEN 1 ELSE -1

Beyond(i, d) == {j \in Indices : IF d > 0 THEN j > i ELSE j < i}

ValidBeyond(i, d) == {j \in Beyond(i, d) : IsValid(j)}

\* the member of the non-empty set T that move(d) meets first
Nearest(T, d) == CHOOSE j \in T : \A k \in T : IF d > 0 THEN j <= k ELSE j >= k

CallsOf(fn) == SelectSeq(calls, LAMBDA c : c.fn = fn)

InitsVia(via) == SelectSeq(calls, LAMBDA c : c.fn = "init" /\ c.via = via)

IsMoveKey == ev.name = "keydown" /\ ev.response \in {"prev", "next"}

\* what the last call in a sequence of calls was made on, and how
Target(c) == <<c.fn, c.ix, c.dir>>

----------------------------------------------------------------------------
\* C1: move, whatever the module list and the index it starts from, never
\* calls init on a module whose validate() returns false.
C1_MoveNeverInitsInvalid ==
    \A k \in 1..Len(calls) :
        (calls[k].fn = "init" /\ calls[k].via = "move")
            => modules[calls[k].ix + 1].validate # "false"

\* a move that met a module whose validate() returns false
C1_Witness ==
    \E k \in 1..Len(calls) :
        /\ calls[k].fn = "validate"
        /\ calls[k].via = "move"
        /\ modules[calls[k].ix + 1].validate = "false"

\* C2: when the current module's run returns MoveNext (MovePrev) and a valid
\* module lies beyond it in that direction, init is called on exactly one
\* module, the nearest valid one, and currentModuleIx becomes its index.
C2_MoveLandsOnNearestValid ==
    IsMoveKey =>
        LET d == Direction(ev.response)
            T == ValidBeyond(ev.preIx, d)
        IN  T # {} =>
                /\ Len(CallsOf("init")) = 1
                /\ Target(CallsOf("init")[1]) = <<"init", Nearest(T, d), d>>
                /\ currentModuleIx = Nearest(T, d)

\* C3: when move finds no valid module in its direction it returns false with
\* currentModuleIx 0, sets exiting before it focuses the exit anchor
\* (direction > 0) or the tab stop (direction < 0), and no module gets init.
C3_ExhaustedMoveExits ==
    /\ (IsMoveKey /\ ValidBeyond(ev.preIx, Direction(ev.response)) = {}) =>
            LET target == IF ev.response = "next" THEN "anchor" ELSE "container"
            IN  /\ moved = "false"
                /\ ~prevented
                /\ currentModuleIx = 0
                /\ focusCalls = <<[target |-> target, exiting |-> TRUE, tib |-> FALSE]>>
                /\ focus = target
                /\ CallsOf("init") = <<>>
    /\ (/\ ev.name = "anchorFocus"
        /\ ~ev.fromChart
        /\ ~ev.preExiting
        /\ Len(modules) > 0
        /\ ValidBeyond(Len(modules), -1) = {}) =>
            /\ moved = "false"
            /\ currentModuleIx = 0
            /\ focusCalls[Len(focusCalls)] =
                   [target |-> "container", exiting |-> TRUE, tib |-> FALSE]
            /\ focus = "container"
            /\ CallsOf("init") = <<>>

\* a key-down whose move(-1) ran off the head of the list
C3_Witness ==
    /\ IsMoveKey
    /\ ev.response = "prev"
    /\ ValidBeyond(ev.preIx, -1) = {}
    /\ moved = "false"
    /\ focus = "container"

\* C4: after a forward exit, a focus event on the exit anchor that comes from
\* outside the chart puts focus on the tab stop and calls init(-1) on the
\* valid module with the largest index, which becomes the current one.
C4_BackwardEntryResumesAtTail ==
    (ev.name = "anchorFocus" /\ ev.afterExit = "forward" /\ ~ev.fromChart) =>
        /\ Len(focusCalls) > 0
        /\ focusCalls[1].target = "container"
        /\ LET T == ValidBeyond(Len(modules), -1)
           IN  T # {} =>
                   /\ Len(CallsOf("init")) = 1
                   /\ Target(CallsOf("init")[1]) = <<"init", Nearest(T, -1), -1>>
                   /\ currentModuleIx = Nearest(T, -1)

\* C5: at most one module is active.
C5_AtMostOneActive == Cardinality(active) <= 1

\* C6: after every listener currentModuleIx is an index of the module list,
\* or 0 when the list is empty.
C6_IndexInRange ==
    IF Len(modules) = 0 THEN currentModuleIx = 0 ELSE currentModuleIx \in Indices

FocusGuardHeld ==
    /\ ~ev.preExiting
    /\ ~isClickingChart
    /\ ~ev.fromChart
    /\ Len(modules) > 0

\* C8: a focus event on the tab stop calls init(1) on module 0 exactly when the
\* focus does not come from inside the chart, the coordinator is neither
\* exiting nor tabbing in backwards, no click on the chart is in progress and
\* there is a module 0; otherwise the event calls init on no module.
C8_FocusInitsExactlyUnderGuard ==
    /\ ev.name = "focus" =>
           calls = IF FocusGuardHeld THEN <<Call("init", 0, 1, "onFocus")>> ELSE <<>>
    \* the focus events the other listeners cause come from inside the chart
    \* or find the coordinator exiting or tabbing in backwards
    /\ ev.name \in {"keydown", "anchorFocus"} => InitsVia("onFocus") = <<>>

\* a focus event that passed the guard
C8_Witness == ev.name = "focus" /\ FocusGuardHeld /\ Len(calls) = 1 /\ 0 \in active

\* C9: focus entry does not validate: under the guard init(1) is called on
\* module 0 although its validate() returns false, and validate is not called.
C9_FirstEntryDoesNotValidate ==
    (ev.name = "focus" /\ FocusGuardHeld /\ modules[1].validate = "false") =>
        /\ InitsVia("onFocus") = <<Call("init", 0, 1, "onFocus")>>
        /\ CallsOf("validate") = <<>>
        /\ 0 \in active

\* focus entered a list whose module 0 is invalid
C9_Witness ==
    /\ ev.name = "focus"
    /\ FocusGuardHeld
    /\ modules[1].validate = "false"
    /\ 0 \in active

\* C10: when run returns Success the default is prevented, currentModuleIx is
\* unchanged and run is the only call made on any module.
C10_SuccessOnlyPreventsDefault ==
    (ev.name = "keydown" /\ ev.response = "success") =>
        /\ prevented
        /\ currentModuleIx = ev.preIx
        /\ calls = <<Call("run", ev.preIx, 0, "onKeydown")>>
        /\ moved = "-"

\* a Success on a module other than the first
C10_Witness ==
    ev.name = "keydown" /\ ev.response = "success" /\ prevented /\ currentModuleIx > 0

\* C11: when run returns MovePrev or MoveNext the default is prevented exactly
\* when move landed on a module (init was called on it and it is valid); when
\* move exits, the default is left alone and focus sits on the exit anchor
\* (forwards) or the tab stop (backwards).
C11_PreventsDefaultIffLanded ==
    IsMoveKey =>
        LET inits == InitsVia("move")
        IN  /\ prevented <=> moved = "true"
            /\ prevented <=>
                   /\ Len(inits) = 1
                   /\ inits[1].ix = currentModuleIx
                   /\ IsValid(inits[1].ix)
            /\ ~prevented =>
                   /\ inits = <<>>
                   /\ focus = IF ev.response = "next" THEN "anchor" ELSE "container"

\* a MoveNext that ran off the end of the list
C11_Witness ==
    /\ IsMoveKey
    /\ ev.response = "next"
    /\ ~prevented
    /\ focus = "anchor"
    /\ ev.preIx = Len(modules) - 1

\* C12: a key-down whose run returns NoResponse or an unrecognised response,
\* or that finds no module at currentModuleIx, prevents no default, leaves
\* currentModuleIx alone, calls neither init nor terminate and throws nothing.
C12_NoResponseChangesNothing ==
    (ev.name = "keydown" /\ ev.response \in {"noHandler", "other", "-"}) =>
        /\ ~prevented
        /\ currentModuleIx = ev.preIx
        /\ calls = IF ev.response = "-"
                      THEN <<>>
                      ELSE <<Call("run", ev.preIx, 0, "onKeydown")>>
        /\ moved = "-"
        /\ ~threw

\* a key-down whose run returned a response outside the protocol
C12_Witness ==
    /\ ev.name = "keydown"
    /\ ev.response = "other"
    /\ Len(calls) = 1
    /\ ~prevented

\* C13: in every state in which the module at currentModuleIx is active, a
\* pointer-up with the pointer outside the chart terminates it, removes the
\* focus border and sets currentModuleIx to 0.
C13_OutsidePointerUpResets ==
    [][(/\ ev'.name = "mouseup"
        /\ currentModuleIx \in active
        /\ ~pointerIsOverChart) =>
            /\ currentModuleIx \notin active'
            /\ ~focusBorder'
            /\ currentModuleIx' = 0]_vars

\* C14: in the pointer-reset state (a pointer-up outside the chart has reset
\* the coordinator and no key-down was handled since) a further pointer-up
\* outside the chart calls terminate on no module, does not remove the focus
\* border again and leaves currentModuleIx and the flags as they are.
C14_OutsidePointerUpIdempotent ==
    [][(/\ ev'.name = "mouseup"
        /\ keyboardReset
        /\ ~pointerIsOverChart) =>
            /\ calls' = <<>>
            /\ ~cleared'
            /\ UNCHANGED <<modules, currentModuleIx, keyboardReset, exiting,
                           tabbingInBackwards, pointerIsOverChart, active,
                           focusBorder, focus>>]_vars

\* a second pointer-up outside the chart, right after the one that reset
C14_Witness ==
    /\ ev.name = "mouseup"
    /\ keyboardReset
    /\ ~pointerIsOverChart
    /\ ~cleared
    /\ calls = <<>>
    /\ currentModuleIx = 0

\* C15: destroy() twice in a row throws nothing and leaves what one destroy()
\* leaves: no exit anchor in the document, no listener of the coordinator
\* registered, no tabindex on chart.container.
C15_DestroyIdempotent ==
    /\ [](destroyed =>
             /\ exitAnchor \notin {"created", "marker"}
             /\ subscriptions = {}
             /\ containerTabindex = "none")
    /\ [][(destroyed /\ ev'.name = "destroy") =>
             /\ ~threw'
             /\ UNCHANGED <<modules, currentModuleIx, exiting, tabbingInBackwards,
                            isClickingChart, keyboardReset, pointerIsOverChart,
                            focus, active, focusBorder, subscriptions,
                            exitAnchor, containerTabindex, renderToTabindex>>]_vars

\* a second destroy() of a coordinator that had modules and an exit anchor
C15_Witness ==
    /\ destroyed
    /\ ev.name = "destroy"
    /\ ev.response = "again"
    /\ Len(modules) > 0

\* C16: after destroy() no key-down, focus or pointer event changes
\* currentModuleIx or a flag of the coordinator or calls anything on a module.
C16_NoListenerAfterDestroy ==
    [][destroyed =>
          /\ calls' = <<>>
          /\ UNCHANGED <<modules, currentModuleIx, exiting, tabbingInBackwards,
                         isClickingChart, keyboardReset, pointerIsOverChart,
                         active, focusBorder>>]_vars

\* an event inside a destroyed chart whose coordinator had an active module
C16_Witness ==
    /\ destroyed
    /\ ev.name = "unheard"
    /\ active # {}
    /\ focus = "inside"

\* C17: update() with no order, an empty order or navigation not switched on
\* leaves an empty module list, currentModuleIx 0 and no exit anchor in the
\* document; key-downs that find the list empty run no module.
C17_EmptyUpdateClearsNavigation ==
    /\ (ev.name = "update" /\ (ev.response = "noOrder" \/ enabledOption # "true")) =>
           /\ modules = <<>>
           /\ currentModuleIx = 0
           /\ exitAnchor \notin {"created", "marker"}
    /\ (ev.name = "keydown" /\ modules = <<>>) =>
           /\ calls = <<>>
           /\ ~prevented
           /\ active = {}

\* navigation switched off while the second module was the current one
C17_Witness ==
    /\ ev.name = "update"
    /\ enabledOption = "false"
    /\ ev.preIx > 0
    /\ modules = <<>>

\* tabindex of the element that is the chart's tab stop, this.tabindexContainer
TabStopTabindex ==
    IF TabindexContainer(renderToTabindex) = "renderTo"
    THEN renderToTabindex
    ELSE containerTabindex

\* the last event was an update() whose configuration is empty or disabled
EmptyUpdate ==
    ev.name = "update" /\ (ev.response = "noOrder" \/ enabledOption # "true")

\* C18 as stated: after update() with an empty or a disabled configuration
\* the tab stop carries a tabindex and no exit anchor is in the document.
C18_EmptyUpdateLeavesOneTabStop ==
    EmptyUpdate =>
        /\ TabStopTabindex # "none"
        /\ exitAnchor \notin {"created", "marker"}

\* C18, amended: after update() with an empty or a disabled configuration no
\* exit anchor is in the document; the tab stop carries a tabindex when
\* navigation is not explicitly disabled, and chart.container carries none
\* when it is.
C18_EmptyUpdateTabStop ==
    EmptyUpdate =>
        /\ exitAnchor \notin {"created", "marker"}
        /\ enabledOption # "false" => TabStopTabindex # "none"
        /\ enabledOption = "false" => containerTabindex = "none"

\* navigation disabled on a chart that had modules and an exit anchor, in an
\* element without a tabindex of its own
C18_Witness ==
    /\ EmptyUpdate
    /\ enabledOption = "false"
    /\ renderToTabindex = "none"
    /\ containerTabindex = "none"
    /\ "anchorFocus" \in subscriptions

\* C19 as stated: after init() and after every update() the tab stop has a
\* tabindex exactly when navigation is not explicitly disabled.
C19_TabindexIffNotDisabled ==
    ev.name \in {"init", "update"} =>
        (TabStopTabindex # "none" <=> enabledOption # "false")

\* C19, amended: after init() and after every update(), chart.container has a
\* tabindex exactly when navigation is not explicitly disabled and
\* chart.renderTo has no tabindex of its own; the tabindex of chart.renderTo
\* is left as it is.
C19_ContainerTabindexIffNotDisabled ==
    ev.name \in {"init", "update"} =>
        /\ containerTabindex # "none" <=>
               (enabledOption # "false" /\ renderToTabindex = "none")
        /\ containerTabindex \in {"none", "0"}

\* an update with the option left unset, on a chart that had been disabled
C19_Witness ==
    /\ ev.name = "update"
    /\ enabledOption = "unset"
    /\ renderToTabindex = "none"
    /\ containerTabindex = "0"
    /\ modules = <<>>

C21_NoValidateMeansValid ==
    IsMoveKey =>
        LET d == Direction(ev.response)
            T == {j \in Beyond(ev.preIx, d) : modules[j + 1].validate # "false"}
        IN  (T # {} /\ modules[Nearest(T, d) + 1].validate = "none") =>
                /\ moved = "true"
                /\ currentModuleIx = Nearest(T, d)
                /\ CallsOf("init") = <<Call("init", Nearest(T, d), d, "move")>>
                /\ \A k \in 1..Len(calls) :
                       calls[k].fn = "validate" => calls[k].ix # Nearest(T, d)

\* a move that landed on a module without validate
C21_Witness ==
    /\ IsMoveKey
    /\ moved = "true"
    /\ modules[currentModuleIx + 1].validate = "none"
    /\ currentModuleIx \in active

\* C22 as stated: a module without init is landed on by move like any valid
\* module, and no focus entry or backward re-entry onto it raises an error.
C22_MissingInitIsNoOp ==
    /\ IsMoveKey =>
           LET d == Direction(ev.response)
               T == ValidBeyond(ev.preIx, d)
           IN  (T # {} /\ ~modules[Nearest(T, d) + 1].init) =>
                   /\ moved = "true"
                   /\ currentModuleIx = Nearest(T, d)
                   /\ focusCalls = <<>>
    /\ ev.name \in {"focus", "anchorFocus"} => ~threw

\* C23 as stated: update() with an empty order, or with an order naming a
\* feature that has no registered component, raises no error and leaves the
\* coordinator without modules and without an exit anchor.
C23_InvalidOrderDegrades ==
    (ev.name = "update" /\ ev.response \in {"noOrder", "unknown"}) =>
        /\ ~threw
        /\ modules = <<>>
        /\ currentModuleIx = 0
        /\ exitAnchor \notin {"created", "marker"}

\* C24: every move returns, and calls validate at most once per module of the
\* list: (1) the validate calls of one listener are on distinct modules of the
\* list; (2) from every state the coordinator reaches, with currentModuleIx in
\* or out of range, move(1) and move(-1) return after at most Len(modules)
\* validate calls.
C24_MoveTerminates ==
    /\ \A k \in 1..Len(calls) :
           calls[k].fn = "validate" =>
               /\ calls[k].ix \in Indices
               /\ \A l \in 1..Len(calls) :
                      (calls[l].fn = "validate" /\ calls[l].ix = calls[k].ix) => l = k
    /\ \A d \in {-1, 1} :
           LET r == move(Frame("inside"), d)
           IN  /\ r.moved \in {"true", "false"}
               /\ Len(SelectSeq(r.calls, LAMBDA c : c.fn = "validate")) <= Len(modules)

\* a backward re-entry that asked every module of an all-invalid list
C24_Witness ==
    /\ ev.name = "anchorFocus"
    /\ moved = "false"
    /\ Len(modules) > 1
    /\ Len(CallsOf("validate")) = Len(modules)

\* C25 as stated: whenever onKeydown calls run on a module (one that has an
\* init operation), that module has received init and has not been
\* terminated since.
C25_RunOnInitialisedModule ==
    [][(/\ ev'.name = "keydown"
        /\ Len(calls') > 0
        /\ calls'[1].fn = "run"
        /\ modules[calls'[1].ix + 1].init)
          => calls'[1].ix \in active]_vars

\* C26 as stated: terminate is called only on a module that has received init
\* since its last terminate.
C26_TerminateOnlyActive ==
    [][\A k \in 1..Len(calls') :
          calls'[k].fn = "terminate" => calls'[k].ix \in active]_vars

\* C27: a key-down whose move(-1) runs off the head of the list puts focus on
\* the tab stop with exiting set, calls init on no module while it is handled,
\* and does not prevent the default.
C27_BackwardExitDoesNotRestart ==
    (IsMoveKey /\ ev.response = "prev" /\ moved = "false") =>
        /\ CallsOf("init") = <<>>
        /\ ~prevented
        /\ currentModuleIx = 0
        /\ focus = "container"
        /\ focusCalls = <<[target |-> "container", exiting |-> TRUE, tib |-> FALSE]>>

\* a backward exit from module 1, the first valid module of the list
C27_Witness ==
    /\ IsMoveKey
    /\ ev.response = "prev"
    /\ ev.preIx = 1
    /\ modules[1].validate = "false"
    /\ moved = "false"
    /\ Len(CallsOf("validate")) = 1

\* C28 as stated: after a backward exit and focus leaving the chart, the next
\* focus event on the tab stop that comes from outside the chart (no click in
\* progress) calls init(1) on module 0 (a module with an init operation).
C28_EntryAfterBackwardExit ==
    (/\ ev.name = "focus"
     /\ ev.afterExit = "backward"
     /\ ~ev.fromChart
     /\ ~isClickingChart
     /\ Len(modules) > 0
     /\ modules[1].init) =>
        /\ InitsVia("onFocus") = <<Call("init", 0, 1, "onFocus")>>
        /\ 0 \in active

\* C29: a key-down whose move(1) runs off the end of the list focuses the exit
\* anchor with exiting set; the anchor's listener does not redirect focus, no
\* module gets init, currentModuleIx is 0 and exiting is cleared; the next
\* focus on the anchor from outside the chart is redirected to the tab stop.
C29_ForwardExitIsNotReentry ==
    /\ (IsMoveKey /\ ev.response = "next" /\ moved = "false") =>
           /\ focusCalls = <<[target |-> "anchor", exiting |-> TRUE, tib |-> FALSE]>>
           /\ focus = "anchor"
           /\ CallsOf("init") = <<>>
           /\ currentModuleIx = 0
           /\ ~exiting
           /\ ~tabbingInBackwards
    /\ (ev.name = "anchorFocus" /\ ev.afterExit = "forward" /\ ~ev.fromChart) =>
           /\ ~ev.preExiting
           /\ Len(focusCalls) > 0
           /\ focusCalls[1].target = "container"

\* a forward exit that left focus on the exit anchor
C29_Witness ==
    /\ IsMoveKey
    /\ ev.response = "next"
    /\ moved = "false"
    /\ focus = "anchor"
    /\ ~exiting

\* C30: the focus the exit-anchor listener puts on the tab stop during a
\* backward re-entry calls init(1) on no module, every init made while the
\* listener runs has direction -1, and tabbingInBackwards is false again
\* whenever a listener has finished.
C30_RedirectDoesNotInitialise ==
    /\ ~tabbingInBackwards
    /\ ev.name = "anchorFocus" =>
           /\ InitsVia("onFocus") = <<>>
           /\ \A k \in 1..Len(calls) :
                  calls[k].fn = "init" => calls[k].dir = -1

\* a backward re-entry whose redirected focus reached the tab stop's listener
C30_Witness ==
    /\ ev.name = "anchorFocus"
    /\ ~ev.fromChart
    /\ Len(focusCalls) > 0
    /\ focusCalls[1] = [target |-> "container", exiting |-> FALSE, tib |-> TRUE]
    /\ focus # "anchor"
    /\ Len(InitsVia("anchor")) = 1

\* C31: a focus event on the tab stop while a click on the chart is in
\* progress calls init on no module; isClickingChart is set by no listener
\* but mousedown/touchstart on the chart and is false after every
\* mouseup/touchend on the document.
C31_ClickInProgressSuppressesInit ==
    /\ []((ev.name = "focus" /\ isClickingChart) => CallsOf("init") = <<>>)
    /\ [](ev.name = "mouseup" => ~isClickingChart)
    /\ [][(~isClickingChart /\ isClickingChart') => ev'.name = "mousedown"]_vars
    /\ [][(isClickingChart /\ ~isClickingChart') => ev'.name = "mouseup"]_vars

\* a focus event from outside the chart, on a coordinator that was not
\* exiting, suppressed by the click in progress
C31_Witness ==
    /\ ev.name = "focus"
    /\ isClickingChart
    /\ ~ev.fromChart
    /\ ~ev.preExiting
    /\ Len(modules) > 0
    /\ calls = <<>>

\* C32: a key-down re-arms the pointer reset: keyboardReset is false after
\* every key-down, stays false until a pointer-up, and a pointer-up that finds
\* it false with the pointer not over the chart terminates the module at
\* currentModuleIx, removes the focus border and sets currentModuleIx to 0.
C32_KeydownRearmsPointerReset ==
    /\ [](ev.name = "keydown" => ~keyboardReset)
    /\ [][(~keyboardReset /\ keyboardReset') => ev'.name = "mouseup"]_vars
    /\ [][(ev'.name = "mouseup" /\ ~keyboardReset /\ ~pointerIsOverChart) =>
             /\ calls' = IF /\ currentModuleIx \in 0..(Len(modules) - 1)
                            /\ modules[currentModuleIx + 1].terminate
                         THEN <<Call("terminate", currentModuleIx, 0, "onMouseUp")>>
                         ELSE <<>>
             /\ currentModuleIx \notin active'
             /\ cleared'
             /\ ~focusBorder'
             /\ currentModuleIx' = 0
             /\ keyboardReset']_vars

\* a pointer-up outside the chart that reset a coordinator whose current
\* module was not module 0 and had a focus border drawn
C32_Witness ==
    /\ ev.name = "mouseup"
    /\ ev.preIx > 0
    /\ Len(CallsOf("terminate")) = 1
    /\ cleared
    /\ currentModuleIx = 0
    /\ keyboardReset

\* C33: a pointer-up while the pointer is over the chart calls nothing on a
\* module and changes nothing but isClickingChart, which it clears.
C33_PointerUpOverChart ==
    [][(ev'.name = "mouseup" /\ pointerIsOverChart) =>
          /\ calls' = <<>>
          /\ ~cleared'
          /\ ~isClickingChart'
          /\ UNCHANGED <<modules, currentModuleIx, keyboardReset, exiting,
                         tabbingInBackwards, pointerIsOverChart, active,
                         focusBorder, focus>>]_vars

\* a pointer-up over the chart that ended a click, with the reset armed
C33_Witness ==
    /\ ev.name = "mouseup"
    /\ pointerIsOverChart
    /\ ~keyboardReset
    /\ currentModuleIx > 0
    /\ active # {}

\* C34 as stated: between init() and destroy(), after any sequence of
\* update() calls, an exit anchor is attached to the document exactly when the
\* module list is not empty.
C34_ExitAnchorIffModules ==
    ~destroyed => (exitAnchor \in {"created", "marker"} <=> Len(modules) > 0)

\* C35: however often compose() is called, and with whatever chart classes,
\* the document has exactly one key-down listener of the module once compose
\* has run, and a key-down calls dismissPopupContent() at most once on a chart.
C35_ComposeIdempotent ==
    /\ docListeners = IF composedItems # {} THEN 1 ELSE 0
    /\ composedItems # {} => "doc" \in composedItems
    /\ \A i \in 1..Len(dismissals) : dismissals[i] <= 1

\* Escape after compose() ran for two chart classes, with a chart of each
C35_Witness ==
    /\ {"Chart", "SubChart"} \subseteq composedItems
    /\ {"Chart", "SubChart"} \subseteq {charts[i] : i \in 1..Len(charts)}
    /\ docKey # NoKey
    /\ \A i \in 1..Len(charts) : dismissals[i] = 1

\* the handlers an order stands for, component by component from the end
RECURSIVE ExpectedHandlers(_)
ExpectedHandlers(order) ==
    IF order = <<>> THEN <<>>
    ELSE ExpectedHandlers(SubSeq(order, 1, Len(order) - 1))
            \o (IF order[Len(order)] = "zoom"
                THEN <<"resetZoom", "drillUp", "mapZoom">>
                ELSE <<"container">>)

\* C36: after update(order) with navigation enabled and a non-empty order the
\* module list is the handlers of the named components, component after
\* component in the order given: three for the zoom component (reset zoom,
\* drill up, map zoom), one for the container component, whose validate()
\* returns true whatever the chart shows.
C36_ModulesFollowOrder ==
    (ev.name = "update" /\ enabledOption = "true" /\ built.order # <<>>) =>
        /\ built.handlers = ExpectedHandlers(built.order)
        /\ Len(modules) = Len(built.handlers)
        /\ \A i \in 1..Len(modules) :
               /\ modules[i].init
               /\ built.handlers[i] = "container" => modules[i].validate = "true"
               /\ built.handlers[i] # "container" =>
                      (modules[i].validate = "true" <=> built.handlers[i] \in zoom.buttons)

\* the zoom component before the container component, on a chart that shows
\* map navigation only
C36_Witness ==
    /\ ev.name = "update"
    /\ built.order = <<"zoom", "container">>
    /\ built.handlers = <<"resetZoom", "drillUp", "mapZoom", "container">>
    /\ Len(modules) = 4
    /\ modules[1].validate = "false"
    /\ modules[4].validate = "true"

\* C37: in the map zoom handler, Tab on zoom-in selects zoom-out and returns
\* success, Shift+Tab on zoom-in returns prev, Shift+Tab on zoom-out selects
\* zoom-in and returns success, Tab on zoom-out returns next; a key that
\* leaves deselects the button it was on and resets the map zoom.  Hence the
\* second Tab after init(1), and the second Shift+Tab after init(-1), leaves.
C37_MapZoomTabProtocol ==
    LET L == zoom.last
    IN  /\ (L.handler = "mapZoom" /\ L.key.code = "tab") =>
               /\ L.deselected = L.preIx
               /\ IF L.key.shiftKey <=> (L.preIx = 0)
                  THEN /\ L.response = IF L.key.shiftKey THEN "prev" ELSE "next"
                       /\ L.mapZoomReset
                       /\ zoom.states[L.preIx + 1] = 0
                       /\ zoom.focusedIx = L.preIx
                       /\ ~zoom.inMap
                  ELSE /\ L.response = "success"
                       /\ ~L.mapZoomReset
                       /\ zoom.focusedIx = 1 - L.preIx
                       /\ zoom.focusEl = IF L.preIx = 0 THEN "zoomOut" ELSE "zoomIn"
                       /\ zoom.states = IF L.preIx = 0 THEN <<0, 2>> ELSE <<2, 0>>
                       /\ zoom.inMap
        /\ (L.handler = "mapZoom" /\ zoom.tabsOnly) =>
               /\ zoom.presses <= 2
               /\ zoom.presses = 1 => (zoom.inMap /\ L.response = "success")
               /\ zoom.presses = 2 =>
                      /\ ~zoom.inMap
                      /\ L.response = IF zoom.initDir > 0 THEN "next" ELSE "prev"

\* init(-1) and two Shift+Tab presses: the handler was left backwards
C37_Witness ==
    /\ zoom.last.handler = "mapZoom"
    /\ zoom.tabsOnly
    /\ zoom.initDir = -1
    /\ zoom.presses = 2
    /\ zoom.last.response = "prev"
    /\ ~zoom.inMap

\* C38: once onMapNavInit has run, focusedMapNavButtonIx is 0 or 1 whatever
\* keys the map zoom handler is given: init(1) sets it to 0, init(-1) to 1,
\* and an arrow key, Space or Enter returns success and leaves it as it is.
C38_FocusedButtonInRange ==
    LET L == zoom.last
    IN  /\ zoom.focusedIx \in {-1, 0, 1}
        /\ (zoom.initDir # 0 \/ zoom.inMap) => zoom.focusedIx \in {0, 1}
        /\ (zoom.inMap /\ zoom.presses = 0) =>
               zoom.focusedIx = IF zoom.initDir > 0 THEN 0 ELSE 1
        /\ (L.handler = "mapZoom" /\ L.key.code # "tab") =>
               /\ L.response = "success"
               /\ zoom.focusedIx = L.preIx
               /\ zoom.inMap

\* Enter on the zoom-out button, after other keys
C38_Witness ==
    /\ zoom.last.handler = "mapZoom"
    /\ zoom.last.key.code = "enter"
    /\ zoom.last.preIx = 1
    /\ zoom.focusedIx = 1
    /\ zoom.presses > 1
    /\ zoom.initDir = 1

\* C39: a simple button handler returns prev for Shift+Tab, Left and Up, next
\* for Tab, Right and Down, and for Space and Enter what its click callback
\* returns, success when that is nothing: success for reset zoom, prev for
\* drill up.
C39_SimpleButtonResponses ==
    LET L == zoom.last
    IN  L.handler \in {"resetZoom", "drillUp"} =>
            L.response =
                CASE L.key.code \in {"left", "up"}    -> "prev"
                  [] L.key.code \in {"right", "down"} -> "next"
                  [] L.key.code = "tab" -> IF L.key.shiftKey THEN "prev" ELSE "next"
                  [] OTHER -> IF L.handler = "drillUp" THEN "prev" ELSE "success"

\* Enter on the drill-up button
C39_Witness ==
    /\ zoom.last.handler = "drillUp"
    /\ zoom.last.key.code = "enter"
    /\ zoom.last.clicked = "drillUp"
    /\ zoom.last.response = "prev"

\* the step panStep was asked for by its last call
PanStepAsked ==
    ((axis.pan.max - axis.pan.min)
        \div (IF axis.pan.granularity = 0 THEN 3 ELSE axis.pan.granularity))
    * axis.pan.direction

\* C40 as stated: panStep moves the window by (max - min) / granularity in
\* the direction given, keeps its size, and leaves the minimum at or above
\* dataMin (direction < 0), the maximum at or below dataMax (direction > 0).
C40_PanStepShiftsByStep ==
    axis.pan.axis # "none" =>
        LET e == axis[axis.pan.axis]
        IN  /\ e.min = axis.pan.min + PanStepAsked
            /\ e.max = axis.pan.max + PanStepAsked
            /\ axis.pan.direction < 0 => e.min >= e.dataMin
            /\ axis.pan.direction > 0 => e.max <= e.dataMax

\* C40, amended: panStep keeps the size of the window; it moves the window by
\* (max - min) / granularity in the direction given unless that takes the
\* minimum below dataMin (direction < 0) or the maximum above dataMax
\* (direction > 0), and then puts the window at that end of the data.
C40_PanStepShiftsOrClamps ==
    axis.pan.axis # "none" =>
        LET e == axis[axis.pan.axis]
            d == axis.pan.direction
        IN  /\ e.max - e.min = axis.pan.max - axis.pan.min
            /\ d < 0 => e.min >= e.dataMin
            /\ d > 0 => e.max <= e.dataMax
            /\ IF d < 0 /\ axis.pan.min + PanStepAsked < e.dataMin
               THEN e.min = e.dataMin
               ELSE IF d > 0 /\ axis.pan.max + PanStepAsked > e.dataMax
               THEN e.max = e.dataMax
               ELSE e.min = axis.pan.min + PanStepAsked

\* a step down that stopped at dataMin, short of the step asked for
C40_Witness ==
    /\ axis.pan.axis = "xAxis"
    /\ axis.pan.direction = -1
    /\ axis.pan.granularity = 2
    /\ axis.pan.min > axis.xAxis.dataMin
    /\ axis.xAxis.min = axis.xAxis.dataMin
    /\ axis.xAxis.min > axis.pan.min + PanStepAsked

====
